---- MODULE Spec2Model ----
(***************************************************************************)
(* Linear measurement-error mitigation (MeasurementErrorMitigation.py).    *)
(*                                                                         *)
(* The engine object (n_qubits, error_mitigation_matrix) and its three     *)
(* methods are modelled as a state machine; the module-level codec         *)
(* functions build_vector / build_dict are operators, exercised on their   *)
(* own by the specification SpecCodec.                                     *)
(*                                                                         *)
(* numpy float64 values are modelled as exact rationals <<num, den>> in    *)
(* lowest terms with den > 0; <<0, 0>> stands for a non-finite value (the  *)
(* nan that 0.0 / 0.0 produces).  Python index i is TLA+ index i + 1.      *)
(***************************************************************************)
EXTENDS Integers, Sequences, FiniteSets, TLC

VARIABLES
    n_qubits,                 \* self.n_qubits
    error_mitigation_matrix,  \* self.error_mitigation_matrix
    calibration,              \* history: the argument of the last build that succeeded
    call,                     \* the call the caller waits for or has just got back:
                              \* operation, argument, engine before, outcome
    codec                     \* a call sequence on the module-level codec functions

vars == <<n_qubits, error_mitigation_matrix, calibration, call, codec>>

(***************************************************************************)
(* Bounds of the model.                                                    *)
(***************************************************************************)
\* qubit counts an engine is constructed with
QubitCounts == {1, 2}
\* shots of one calibration run (IBMQHandler.shots, 8192 by default)
MaxShots == 3
\* total number of shots in an observed distribution
MaxObserved == 2
\* largest count in a mapping handed to the codec
MaxCount == 2

(***************************************************************************)
(* float64 arithmetic, as exact rationals.                                 *)
(***************************************************************************)
Abs(x) == IF x < 0 THEN -x ELSE x

RECURSIVE GCD(_, _)
GCD(a, b) == IF b = 0 THEN a ELSE GCD(b, a % b)

NaN == <<0, 0>>

Float(num, den) ==
    IF den = 0 THEN NaN
    ELSE LET g == GCD(Abs(num), Abs(den))
             s == IF den < 0 THEN -1 ELSE 1
         IN  <<(s * num) \div g, Abs(den) \div g>>

Zero == <<0, 1>>

IsFinite(x) == x[2] # 0

FAdd(x, y) ==
    IF ~IsFinite(x) \/ ~IsFinite(y) THEN NaN
    ELSE Float(x[1] * y[2] + y[1] * x[2], x[2] * y[2])

FMul(x, y) ==
    IF ~IsFinite(x) \/ ~IsFinite(y) THEN NaN
    ELSE Float(x[1] * y[1], x[2] * y[2])

FNeg(x) == <<-x[1], x[2]>>

\* x / y on numpy scalars: a zero divisor gives a non-finite value, and a warning
FDiv(x, y) ==
    IF ~IsFinite(x) \/ ~IsFinite(y) \/ y[1] = 0 THEN NaN
    ELSE Float(x[1] * y[2], x[2] * y[1])

\* int(x): truncation toward zero
int(x) == IF x[1] >= 0 THEN x[1] \div x[2] ELSE -((-x[1]) \div x[2])

max(a, b) == IF a >= b THEN a ELSE b

\* numpy.sum of a vector
RECURSIVE sum(_)
sum(vec) == IF Len(vec) = 0 THEN Zero ELSE FAdd(vec[1], sum(Tail(vec)))

\* numpy.empty(0): an array whose shape[0] is 0
empty0 == << >>

\* numpy.asarray of a list of numbers
asarray(list) == [i \in 1..Len(list) |-> Float(list[i], 1)]

(***************************************************************************)
(* '{0:0{1}b}'.format(i, width): the binary digits of i, most significant  *)
(* first, zero-padded on the left to at least width characters.            *)
(***************************************************************************)
RECURSIVE bin(_)
bin(i) ==
    IF i < 2 THEN <<IF i = 1 THEN "1" ELSE "0">>
    ELSE bin(i \div 2) \o <<IF i % 2 = 1 THEN "1" ELSE "0">>

format_b(i, width) ==
    LET digits == bin(i)
    IN  IF Len(digits) >= width THEN digits
        ELSE [p \in 1..(width - Len(digits)) |-> "0"] \o digits

\* {} : the dict without keys
EmptyDict == [key \in {} |-> 0]

(***************************************************************************)
(* build_vector and build_dict.                                            *)
(***************************************************************************)
\* build_vector, were the key read with its characters in the opposite order
build_vector_lsb_first(measurement_results, n) ==
    [i1 \in 1..(2 ^ n) |->
        LET bit_string == format_b(i1 - 1, n)
            reversed   == [p \in 1..Len(bit_string) |->
                              bit_string[Len(bit_string) + 1 - p]]
        IN  IF reversed \in DOMAIN measurement_results
            THEN Float(measurement_results[reversed], 1)
            ELSE Zero]

build_vector(measurement_results, n) ==
    [i1 \in 1..(2 ^ n) |->
        LET bit_string == format_b(i1 - 1, n)
        IN  IF bit_string \in DOMAIN measurement_results
            THEN Float(measurement_results[bit_string], 1)
            ELSE Zero]

build_dict(vec, n) ==
    LET kept == {i \in 0..(2 ^ n - 1) : vec[i + 1] # Zero}
    IN  [bit_string \in {format_b(i, n) : i \in kept} |->
            LET i == CHOOSE j \in kept : format_b(j, n) = bit_string
            IN  max(int(vec[i + 1]), 0)]

(***************************************************************************)
(* scipy.linalg.inv and numpy.dot.                                         *)
(***************************************************************************)
Minor(M, r, c) ==
    [i \in 1..(Len(M) - 1) |->
        [k \in 1..(Len(M) - 1) |->
            M[IF i < r THEN i ELSE i + 1][IF k < c THEN k ELSE k + 1]]]

RECURSIVE DetFrom(_, _)
RECURSIVE Det(_)
\* the cofactor expansion along the first row, from column c on
DetFrom(M, c) ==
    IF c > Len(M) THEN Zero
    ELSE LET term == FMul(M[1][c], Det(Minor(M, 1, c)))
         IN  FAdd(IF c % 2 = 1 THEN term ELSE FNeg(term), DetFrom(M, c + 1))

Det(M) == IF Len(M) = 1 THEN M[1][1] ELSE DetFrom(M, 1)

Cofactor(M, r, c) ==
    LET m == Det(Minor(M, r, c))
    IN  IF (r + c) % 2 = 0 THEN m ELSE FNeg(m)

\* inv(a) with check_finite=True: ValueError on a non-finite entry, LinAlgError on
\* a singular matrix, the inverse otherwise
inv(a) ==
    IF \E i \in 1..Len(a) : \E k \in 1..Len(a) : ~IsFinite(a[i][k])
    THEN [raised |-> "ValueError", value |-> << >>]
    ELSE LET det == Det(a)
         IN  IF det = Zero
             THEN [raised |-> "LinAlgError", value |-> << >>]
             ELSE [raised |-> "none",
                   value  |-> [i \in 1..Len(a) |->
                                 [k \in 1..Len(a) |-> FDiv(Cofactor(a, k, i), det)]]]

RECURSIVE RowDot(_, _, _)
RowDot(row, vec, k) ==
    IF k > Len(row) THEN Zero
    ELSE FAdd(FMul(row[k], vec[k]), RowDot(row, vec, k + 1))

\* dot(matrix, vec) of a 2-d and a 1-d array: ValueError unless the shapes align
dot(matrix, vec) ==
    IF Len(vec) # Len(matrix[1])
    THEN [raised |-> "ValueError", value |-> << >>]
    ELSE [raised |-> "none",
          value  |-> [i \in 1..Len(matrix) |-> RowDot(matrix[i], vec, 1)]]

(***************************************************************************)
(* class MeasurementErrorMitigation.  A method is an operator from the     *)
(* object (and the argument) to the object afterwards, the argument        *)
(* afterwards, the value returned and the exception raised ("none" when    *)
(* the call returns).                                                      *)
(***************************************************************************)
Self == [n_qubits |-> n_qubits, error_mitigation_matrix |-> error_mitigation_matrix]

\* QuantumCircuit(5)
CircuitQubits == 5

build_mitigation_circuit(self) ==
    [i1 \in 1..(2 ^ self.n_qubits) |->
        LET bit_string == format_b(i1 - 1, self.n_qubits)
        IN  [num_qubits |-> CircuitQubits,
             x          |-> {k \in 0..(self.n_qubits - 1) :
                                bit_string[(self.n_qubits - k - 1) + 1] = "1"},
             \* measure_all(): every qubit of the circuit
             measured   |-> 0..(CircuitQubits - 1)]]

\* normalized_row, were the division by num_shots left out
normalized_row_unnormalized(measurement_results_i, n) ==
    build_vector(measurement_results_i, n)

\* one pass of the outer loop, lines 45-49: row i of the matrix
normalized_row(measurement_results_i, n) ==
    LET vec       == build_vector(measurement_results_i, n)
        num_shots == sum(vec)
    IN  [k \in 1..(2 ^ n) |-> FDiv(vec[k], num_shots)]

\* response_matrix, were the assignment matrix[k][i] = vec[k] / num_shots
response_matrix_transposed(measurement_results, n) ==
    [k \in 1..(2 ^ n) |->
        [i \in 1..(2 ^ n) |-> normalized_row(measurement_results[i], n)[k]]]

\* the matrix after the loop, lines 42-49
response_matrix(measurement_results, n) ==
    [i \in 1..(2 ^ n) |-> normalized_row(measurement_results[i], n)]

build_error_mitigation_matrix(self, measurement_results) ==
    LET d == 2 ^ self.n_qubits
    IN  IF Len(measurement_results) < d
        THEN \* measurement_results[i] raises at i = len(measurement_results)
             [self |-> self, raised |-> "IndexError",
              normalized |-> Len(measurement_results)]
        ELSE LET r == inv(response_matrix(measurement_results, self.n_qubits))
             IN  IF r.raised # "none"
                 THEN [self |-> self, raised |-> r.raised, normalized |-> d]
                 ELSE [self |-> [self EXCEPT !.error_mitigation_matrix = r.value],
                       raised |-> "none", normalized |-> d]

\* the test of line 54
not_built(self) == Len(self.error_mitigation_matrix) = 0

\* the vector mitigate_errors makes of an argument of a recognized type
as_vector(self, measurement_results) ==
    CASE measurement_results.type = "dict" ->
           build_vector(measurement_results.val, self.n_qubits)
      [] measurement_results.type = "list" ->
           asarray(measurement_results.val)
      [] measurement_results.type = "ndarray" ->
           measurement_results.val

\* mitigate_errors, were the test of line 54 left out: numpy.dot raises on the
\* empty array
mitigate_errors_unchecked(self, measurement_results) ==
    IF measurement_results.type \notin {"dict", "list", "ndarray"}
    THEN [self |-> self, arg |-> measurement_results, ret |-> EmptyDict,
          raised |-> "none", product |-> << >>,
          printed |-> "Invalid argument type"]
    ELSE LET vec == as_vector(self, measurement_results)
             p   == IF Len(self.error_mitigation_matrix) = 0
                    THEN [raised |-> "ValueError", value |-> << >>]
                    ELSE dot(self.error_mitigation_matrix, vec)
         IN  IF p.raised # "none"
             THEN [self |-> self, arg |-> measurement_results, ret |-> EmptyDict,
                   raised |-> p.raised, product |-> << >>, printed |-> ""]
             ELSE [self |-> self, arg |-> measurement_results,
                   ret |-> build_dict(p.value, self.n_qubits),
                   raised |-> "none", product |-> p.value, printed |-> ""]

\* mitigate_errors, were the product written back into the array it was given
\* (vec is measurement_results itself when that is an ndarray)
mitigate_errors_in_place(self, measurement_results) ==
    IF Len(self.error_mitigation_matrix) = 0
    THEN [self |-> self, arg |-> measurement_results, ret |-> EmptyDict,
          raised |-> "none", product |-> << >>,
          printed |-> "Error mitigation matrix not built"]
    ELSE IF measurement_results.type \notin {"dict", "list", "ndarray"}
    THEN [self |-> self, arg |-> measurement_results, ret |-> EmptyDict,
          raised |-> "none", product |-> << >>,
          printed |-> "Invalid argument type"]
    ELSE LET vec == as_vector(self, measurement_results)
             p   == dot(self.error_mitigation_matrix, vec)
         IN  IF p.raised # "none"
             THEN [self |-> self, arg |-> measurement_results, ret |-> EmptyDict,
                   raised |-> p.raised, product |-> << >>, printed |-> ""]
             ELSE [self |-> self,
                   arg |-> IF measurement_results.type = "ndarray"
                           THEN [measurement_results EXCEPT !.val = p.value]
                           ELSE measurement_results,
                   ret |-> build_dict(p.value, self.n_qubits),
                   raised |-> "none", product |-> p.value, printed |-> ""]

mitigate_errors(self, measurement_results) ==
    IF not_built(self)
    THEN [self |-> self, arg |-> measurement_results, ret |-> EmptyDict,
          raised |-> "none", product |-> << >>,
          printed |-> "Error mitigation matrix not built"]
    ELSE IF measurement_results.type \notin {"dict", "list", "ndarray"}
    THEN [self |-> self, arg |-> measurement_results, ret |-> EmptyDict,
          raised |-> "none", product |-> << >>,
          printed |-> "Invalid argument type"]
    ELSE LET vec == as_vector(self, measurement_results)
             p   == dot(self.error_mitigation_matrix, vec)
         IN  IF p.raised # "none"
             THEN [self |-> self, arg |-> measurement_results, ret |-> EmptyDict,
                   raised |-> p.raised, product |-> << >>, printed |-> ""]
             ELSE [self |-> self, arg |-> measurement_results,
                   ret |-> build_dict(p.value, self.n_qubits),
                   raised |-> "none", product |-> p.value, printed |-> ""]

(***************************************************************************)
(* The callers' data.                                                      *)
(*                                                                         *)
(* IBMQHandler.run_quantum_circuit returns the counts of one run as a      *)
(* dict that omits the outcomes never seen.  A calibration run of basis    *)
(* state i has MaxShots shots, e of which misread qubit f, or no shot at   *)
(* all.  The runs whose qubit f is prepared in 0 share one error count,    *)
(* the runs whose qubit f is prepared in 1 another.                        *)
(***************************************************************************)
Bit(i, k) == (i \div (2 ^ k)) % 2

Flip(i, k) == IF Bit(i, k) = 1 THEN i - 2 ^ k ELSE i + 2 ^ k

\* the dict of the non-zero components of an integer vector
get_counts(v, n) ==
    [bit_string \in {format_b(i, n) : i \in {j \in 0..(2 ^ n - 1) : v[j + 1] # 0}} |->
        v[(CHOOSE j \in 0..(2 ^ n - 1) : format_b(j, n) = bit_string) + 1]]

RunProfiles == {<<0, 0>>} \cup {<<MaxShots, e>> : e \in 0..MaxShots}

run_quantum_circuit(i, n, f, profile) ==
    get_counts([j1 \in 1..(2 ^ n) |->
                   (IF j1 - 1 = i THEN profile[1] - profile[2] ELSE 0)
                 + (IF j1 - 1 = Flip(i, f) THEN profile[2] ELSE 0)], n)

\* the lists handed to build_error_mitigation_matrix: the results of the first
\* len calibration circuits
CalibrationData(n) ==
    {[i1 \in 1..len |->
         run_quantum_circuit(i1 - 1, n, f, IF Bit(i1 - 1, f) = 0 THEN p0 ELSE p1)] :
       <<f, p0, p1, len>> \in
           (0..(n - 1)) \X RunProfiles \X RunProfiles \X (0..(2 ^ n))}

RECURSIVE Total(_)
Total(v) == IF Len(v) = 0 THEN 0 ELSE v[1] + Total(Tail(v))

ObservedVectors(n) ==
    {v \in [1..(2 ^ n) -> 0..MaxObserved] : Total(v) <= MaxObserved}

\* the dict that holds every outcome of v, the zero counts included
dense_dict(v, n) ==
    [bit_string \in {format_b(i, n) : i \in 0..(2 ^ n - 1)} |->
        v[(CHOOSE j \in 0..(2 ^ n - 1) : format_b(j, n) = bit_string) + 1]]

\* the arguments handed to mitigate_errors: a dict, a list or an ndarray of the
\* observed counts, a vector of another length, a value of another type
Arguments(n) ==
    UNION {{[type |-> "dict",    val |-> get_counts(v, n)],
            [type |-> "dict",    val |-> dense_dict(v, n)],
            [type |-> "list",    val |-> v],
            [type |-> "ndarray", val |-> asarray(v)],
            [type |-> "list",    val |-> Append(v, 0)],
            [type |-> "ndarray", val |-> asarray(Tail(v))],
            [type |-> "tuple",   val |-> v]} : v \in ObservedVectors(n)}
    \cup {[type |-> "NoneType", val |-> << >>]}

(***************************************************************************)
(* The engine as a state machine: one action per method call, and the      *)
(* caller's step that takes the outcome of a call and goes on.             *)
(***************************************************************************)
CodecIdle == [pc |-> "idle"]

\* __init__(n_qubits)
Init ==
    /\ n_qubits \in QubitCounts
    /\ error_mitigation_matrix = empty0
    /\ calibration = << >>
    /\ call = [op |-> "__init__"]
    /\ codec = CodecIdle

Resume ==
    /\ call.op # "idle"
    /\ call' = [op |-> "idle"]
    /\ UNCHANGED <<n_qubits, error_mitigation_matrix, calibration, codec>>

CallBuildMitigationCircuit ==
    /\ call.op = "idle"
    /\ call' = [op |-> "build_mitigation_circuit", ret |-> build_mitigation_circuit(Self)]
    /\ UNCHANGED <<n_qubits, error_mitigation_matrix, calibration, codec>>

CallBuildErrorMitigationMatrix ==
    /\ call.op = "idle"
    /\ \E measurement_results \in CalibrationData(n_qubits) :
        LET r == build_error_mitigation_matrix(Self, measurement_results)
        IN  /\ n_qubits' = r.self.n_qubits
            /\ error_mitigation_matrix' = r.self.error_mitigation_matrix
            /\ calibration' = IF r.raised = "none" THEN measurement_results
                              ELSE calibration
            /\ call' = [op         |-> "build_error_mitigation_matrix",
                        arg        |-> measurement_results,
                        before     |-> Self,
                        raised     |-> r.raised,
                        normalized |-> r.normalized]
            /\ UNCHANGED codec

CallMitigateErrors ==
    /\ call.op = "idle"
    /\ \E measurement_results \in Arguments(n_qubits) :
        LET r == mitigate_errors(Self, measurement_results)
        IN  /\ n_qubits' = r.self.n_qubits
            /\ error_mitigation_matrix' = r.self.error_mitigation_matrix
            /\ call' = [op        |-> "mitigate_errors",
                        arg       |-> measurement_results,
                        arg_after |-> r.arg,
                        before    |-> Self,
                        ret       |-> r.ret,
                        raised    |-> r.raised,
                        product   |-> r.product,
                        printed   |-> r.printed]
            /\ UNCHANGED <<calibration, codec>>

Next ==
    \/ Resume
    \/ CallBuildMitigationCircuit
    \/ CallBuildErrorMitigationMatrix
    \/ CallMitigateErrors

Spec == Init /\ [][Next]_vars

(***************************************************************************)
(* The codec on its own: build_vector applied to a mapping whose keys are  *)
(* width-n bit-strings, then build_dict applied to the vector.             *)
(***************************************************************************)
BitStrings(n) == {format_b(i, n) : i \in 0..(2 ^ n - 1)}

Mappings(n) == UNION {[keys -> 0..MaxCount] : keys \in SUBSET BitStrings(n)}

InitCodec ==
    /\ n_qubits \in QubitCounts
    /\ error_mitigation_matrix = empty0
    /\ calibration = << >>
    /\ call = [op |-> "__init__"]
    /\ \E m \in Mappings(n_qubits) : codec = [pc |-> "start", n |-> n_qubits, m |-> m]

CallBuildVector ==
    /\ codec.pc = "start"
    /\ codec' = [pc |-> "encoded", n |-> codec.n, m |-> codec.m,
                 vec |-> build_vector(codec.m, codec.n)]
    /\ UNCHANGED <<n_qubits, error_mitigation_matrix, calibration, call>>

CallBuildDict ==
    /\ codec.pc = "encoded"
    /\ codec' = [pc |-> "decoded", n |-> codec.n, m |-> codec.m, vec |-> codec.vec,
                 dic |-> build_dict(codec.vec, codec.n)]
    /\ UNCHANGED <<n_qubits, error_mitigation_matrix, calibration, call>>

NextCodec ==
    \/ CallBuildVector
    \/ CallBuildDict

SpecCodec == InitCodec /\ [][NextCodec]_vars

(***************************************************************************)
(* The vocabulary of the properties.                                       *)
(***************************************************************************)
\* the canonical bit-string of basis-state index i: width n, and the character
\* at distance k from the right end is bit k of i
Canonical(i, n) == [p \in 1..n |-> IF Bit(i, n - p) = 1 THEN "1" ELSE "0"]

Dim == 2 ^ n_qubits

\* the count a mapping holds for basis state i (an absent key is a zero)
CountOf(m, i, n) == IF Canonical(i, n) \in DOMAIN m THEN m[Canonical(i, n)] ELSE 0

\* the number of shots of a calibration run
RECURSIVE ShotsFrom(_, _, _)
ShotsFrom(m, i, n) ==
    IF i >= 2 ^ n THEN 0 ELSE CountOf(m, i, n) + ShotsFrom(m, i + 1, n)

\* sum over k in lo..hi of term[k], for rationals
RECURSIVE Sigma(_, _, _)
Sigma(term, lo, hi) ==
    IF lo > hi THEN Zero ELSE FAdd(term[lo], Sigma(term, lo + 1, hi))

\* entry A[i][k] of the calibration matrix of the data c: the share of the shots
\* of run i that observed basis state k
EntryA(c, i, k, n) == Float(CountOf(c[i + 1], k, n), ShotsFrom(c[i + 1], 0, n))

\* the count vector a well-formed argument of mitigate_errors stands for
Observed(arg, n) ==
    IF arg.type = "dict"
    THEN [i1 \in 1..(2 ^ n) |-> <<CountOf(arg.val, i1 - 1, n), 1>>]
    ELSE [i1 \in 1..(2 ^ n) |-> IF arg.type = "list" THEN <<arg.val[i1], 1>>
                                ELSE arg.val[i1]]

WellFormed(arg, n) ==
    \/ arg.type = "dict"
    \/ arg.type \in {"list", "ndarray"} /\ Len(arg.val) = 2 ^ n

\* the mapping a vector x decodes to, per the clamping rule as the code applies it:
\* a key for every non-zero component, holding its integer part, or 0 if negative
Decoded(x, n) ==
    [key \in {Canonical(i, n) : i \in {j \in 0..(2 ^ n - 1) : x[j + 1][1] # 0}} |->
        LET i == CHOOSE j \in 0..(2 ^ n - 1) : Canonical(j, n) = key
        IN  IF x[i + 1][1] <= 0 THEN 0 ELSE x[i + 1][1] \div x[i + 1][2]]

\* a mapping without its zero-count entries
NonZero(m) == [key \in {k \in DOMAIN m : m[k] # 0} |-> m[key]]

Built == calibration # << >>

\* calibration data with a shot in every run and two runs alike: a singular matrix
IdenticalRows(c, n) ==
    /\ Len(c) = 2 ^ n
    /\ \A i \in 1..Len(c) : ShotsFrom(c[i], 0, n) > 0
    /\ \E i, k \in 1..Len(c) : i # k /\ c[i] = c[k]

\* calibration data in which run i has all of its shots on basis state i
Noiseless(c, n) ==
    /\ Len(c) = 2 ^ n
    /\ \A i \in 0..(2 ^ n - 1) :
         /\ CountOf(c[i + 1], i, n) > 0
         /\ \A k \in 0..(2 ^ n - 1) : k # i => CountOf(c[i + 1], k, n) = 0

\* fewer than 2^n calibration results, or a run without a shot
Insufficient(c, n) ==
    \/ Len(c) < 2 ^ n
    \/ \E i \in 1..(2 ^ n) : ShotsFrom(c[i], 0, n) = 0

(***************************************************************************)
(* C1: after a successful build from the calibration mappings c, a call    *)
(* mitigate_errors(observed) with a sparse mapping or a dense vector of    *)
(* length 2^n returns decode(M . encode(observed)), where the stored M is  *)
(* the inverse of A, A[i][k] = encode(c_i)[k] / sum(encode(c_i)), not of   *)
(* its transpose: M . A is the identity, the vector x that was decoded     *)
(* satisfies A . x = encode(observed), and the mapping returned is the     *)
(* decoding of x.                                                          *)
(***************************************************************************)
MitigationIsInverseTimesObserved ==
    (call.op = "mitigate_errors" /\ Built /\ WellFormed(call.arg, n_qubits)) =>
        LET n == n_qubits
            c == calibration
            M == error_mitigation_matrix
            x == call.product
            v == Observed(call.arg, n)
        IN  /\ call.raised = "none"
            /\ \A i, j \in 0..(Dim - 1) :
                 Sigma([k1 \in 1..Dim |-> FMul(M[i + 1][k1], EntryA(c, k1 - 1, j, n))],
                       1, Dim) = (IF i = j THEN <<1, 1>> ELSE Zero)
            /\ \A i \in 0..(Dim - 1) :
                 Sigma([k1 \in 1..Dim |-> FMul(EntryA(c, i, k1 - 1, n), x[k1])],
                       1, Dim) = v[i + 1]
            /\ call.ret = Decoded(x, n)

\* two qubits, a dense vector, a response that is not symmetric, and a corrected
\* vector with a negative and a fractional component
MitigationWitness ==
    /\ call.op = "mitigate_errors"
    /\ Built
    /\ n_qubits = 2
    /\ call.arg.type = "ndarray"
    /\ Len(call.arg.val) = 4
    /\ call.raised = "none"
    /\ \E i, k \in 0..3 : EntryA(calibration, i, k, 2) # EntryA(calibration, k, i, 2)
    /\ \E i \in 1..4 : call.product[i][1] < 0
    /\ \E i \in 1..4 : call.product[i][2] > 1 /\ call.product[i][1] > 0
    /\ call.ret # EmptyDict

(***************************************************************************)
(* C2: round trip of the codec.  For a mapping m whose keys are width-n    *)
(* bit-strings and whose counts are non-negative integers,                 *)
(* build_dict(build_vector(m, n), n) is m without its zero-count entries:  *)
(* the same keys of non-zero count, each with the same integer.            *)
(***************************************************************************)
CodecRoundTrip ==
    codec.pc = "decoded" =>
        /\ DOMAIN codec.dic = {key \in DOMAIN codec.m : codec.m[key] # 0}
        /\ \A key \in DOMAIN codec.dic : codec.dic[key] = codec.m[key]

\* two qubits, a mapping with a zero-count entry and two different non-zero counts
\* under keys that are not palindromes
CodecRoundTripWitness ==
    /\ codec.pc = "decoded"
    /\ codec.n = 2
    /\ <<"0", "0">> \in DOMAIN codec.m /\ codec.m[<<"0", "0">>] = 0
    /\ <<"0", "1">> \in DOMAIN codec.m /\ codec.m[<<"0", "1">>] = 1
    /\ <<"1", "0">> \in DOMAIN codec.m /\ codec.m[<<"1", "0">>] = MaxCount
    /\ <<"1", "1">> \notin DOMAIN codec.m
    /\ codec.vec = <<Zero, <<1, 1>>, <<MaxCount, 1>>, Zero>>
    /\ DOMAIN codec.dic = {<<"0", "1">>, <<"1", "0">>}

(***************************************************************************)
(* C3: not yet built.  As long as no build_error_mitigation_matrix call    *)
(* has succeeded, mitigate_errors returns the empty mapping for every      *)
(* input (mapping, list, dense vector, any other type) and does not raise; *)
(* the check comes before the input is looked at, so what is reported is   *)
(* "not built" whatever the input is.                                      *)
(***************************************************************************)
NotBuiltReturnsEmpty ==
    (call.op = "mitigate_errors" /\ ~Built) =>
        /\ call.ret = EmptyDict
        /\ call.raised = "none"
        /\ call.printed = "Error mitigation matrix not built"

\* an input of an unrecognized type, handed to an engine never built
NotBuiltWitness ==
    /\ call.op = "mitigate_errors"
    /\ ~Built
    /\ call.arg.type = "tuple"
    /\ call.ret = EmptyDict

(***************************************************************************)
(* C4: whenever build_error_mitigation_matrix is called with calibration   *)
(* data whose matrix is singular (two identical calibration rows), the     *)
(* build fails and the engine holds no mitigation operator afterwards,     *)
(* also when an earlier build had succeeded.                               *)
(***************************************************************************)
SingularBuildLeavesNoOperator ==
    (call.op = "build_error_mitigation_matrix" /\ IdenticalRows(call.arg, n_qubits)) =>
        /\ call.raised # "none"
        /\ Len(error_mitigation_matrix) = 0

(***************************************************************************)
(* C5: identity response.  When calibration run i has all of its shots on  *)
(* basis state i, the build succeeds, and mitigate_errors then returns     *)
(* every observed mapping (width-n keys, non-negative integer counts)      *)
(* unchanged, but for the omission of the zero-count entries.              *)
(***************************************************************************)
IdentityResponseIsIdentity ==
    /\ (call.op = "build_error_mitigation_matrix" /\ Noiseless(call.arg, n_qubits)) =>
          call.raised = "none" /\ calibration = call.arg
    /\ (call.op = "mitigate_errors" /\ Built /\ Noiseless(calibration, n_qubits)
          /\ call.arg.type = "dict") =>
          call.raised = "none" /\ call.ret = NonZero(call.arg.val)

\* two qubits, noiseless calibration, an observed mapping with a zero-count entry
\* and two outcomes seen
IdentityResponseWitness ==
    /\ call.op = "mitigate_errors"
    /\ n_qubits = 2
    /\ Built
    /\ Noiseless(calibration, 2)
    /\ call.arg.type = "dict"
    /\ \E key \in DOMAIN call.arg.val : call.arg.val[key] = 0
    /\ Cardinality(DOMAIN call.ret) = 2

(***************************************************************************)
(* C6: build_mitigation_circuit returns 2^n circuits in index order;       *)
(* circuit i flips exactly the qubits k in [0, n) whose bit k of i (from   *)
(* the least significant bit) is 1, and measures the n qubits of the       *)
(* system, so that the outcomes are width-n bit-strings.                   *)
(***************************************************************************)
CircuitsPrepareAndMeasureNQubits ==
    call.op = "build_mitigation_circuit" =>
        /\ Len(call.ret) = 2 ^ n_qubits
        /\ \A i \in 0..(2 ^ n_qubits - 1) :
             /\ call.ret[i + 1].x = {k \in 0..(n_qubits - 1) : Bit(i, k) = 1}
             /\ call.ret[i + 1].measured = 0..(n_qubits - 1)

(***************************************************************************)
(* C7: malformed input.  With the operator built, mitigate_errors given    *)
(* an input of an unrecognized type, or a list or array whose length is    *)
(* not 2^n, returns the empty mapping and does not raise.                  *)
(***************************************************************************)
MalformedInputReturnsEmpty ==
    (call.op = "mitigate_errors" /\ Built /\ ~WellFormed(call.arg, n_qubits)) =>
        /\ call.ret = EmptyDict
        /\ call.raised = "none"

(***************************************************************************)
(* C8: mitigate_errors changes nothing.  Whatever the input and the        *)
(* outcome (a corrected mapping, not built, invalid type), n_qubits and    *)
(* error_mitigation_matrix are after the call what they were before it,    *)
(* and the caller's mapping or vector is what it was.                      *)
(***************************************************************************)
MitigateErrorsLeavesStateAlone ==
    call.op = "mitigate_errors" =>
        /\ n_qubits = call.before.n_qubits
        /\ error_mitigation_matrix = call.before.error_mitigation_matrix
        /\ call.arg_after = call.arg

\* a call that corrected an ndarray, which the code uses without copying it
MitigateErrorsFrameWitness ==
    /\ call.op = "mitigate_errors"
    /\ Built
    /\ call.arg.type = "ndarray"
    /\ call.raised = "none"
    /\ call.ret # EmptyDict
    /\ call.product # call.arg.val

(***************************************************************************)
(* C9: every mapping mitigate_errors returns (through build_dict) is       *)
(* sparse and non-negative: no key holds 0 or a negative value; a          *)
(* component that is zero, negative, or of integer part 0 has no key,      *)
(* every other component has its canonical key with a positive integer.    *)
(***************************************************************************)
ReturnedMappingHasNoZeroEntry ==
    (call.op = "mitigate_errors" /\ call.raised = "none") =>
        /\ \A key \in DOMAIN call.ret : call.ret[key] > 0
        /\ Len(call.product) = 2 ^ n_qubits =>
             DOMAIN call.ret =
                 {Canonical(i, n_qubits) :
                    i \in {j \in 0..(2 ^ n_qubits - 1) : int(call.product[j + 1]) > 0}}

(***************************************************************************)
(* C10: insufficient calibration data.  Given fewer than 2^n calibration   *)
(* results, or a calibration run without a single shot, the build fails    *)
(* before it computes any normalization, and neither installs nor changes  *)
(* the mitigation operator.                                                *)
(***************************************************************************)
InsufficientDataFailsFast ==
    (call.op = "build_error_mitigation_matrix" /\ Insufficient(call.arg, n_qubits)) =>
        /\ call.raised # "none"
        /\ call.normalized = 0
        /\ error_mitigation_matrix = call.before.error_mitigation_matrix

====
